---- MODULE Spec2Model ----
(***************************************************************************)
(* A model of www/orm.py (schema derivation in ModelMetaclass, the active  *)
(* record operations of Model) and of www/lxfweb.py (registration-time     *)
(* inspection of a handler and RequestHandler.__call__).                   *)
(*                                                                         *)
(* Python values are modelled as strings ("None" is Python's None), lists  *)
(* and tuples as sequences, dicts as functions whose DOMAIN is the key set.*)
(* A Python string that the code assembles from pieces is a sequence of    *)
(* tokens; a back-quoted identifier `x` is the token "[x]".                *)
(***************************************************************************)
EXTENDS Integers, Sequences, FiniteSets, TLC

VARIABLES cls, inst, genCalls, op, handler, req, resp, pool, task

ormVars == <<cls, inst, genCalls, op>>
webVars == <<handler, req, resp>>
poolVars == <<pool, task>>
vars == <<cls, inst, genCalls, op, handler, req, resp, pool, task>>

None == "None"

\* Python truthiness of the string-or-None values the code tests with "if x" / "x or y".
Truthy(x) == x # None /\ x # ""

EmptyDict == [k \in {} |-> None]

\* dict[key] = value
DictSet(d, key, value) == [k \in DOMAIN d \cup {key} |-> IF k = key THEN value ELSE d[k]]

(***************************************************************************)
(* Bounds of the model.                                                    *)
(***************************************************************************)
\* Largest number of attributes in a class body.
MaxFields == 3
\* Largest number of rows the database returns to a select.
MaxRows == 1
\* Largest number of parameters of a handler function.
MaxParams == 2
\* Largest number of name=value pairs in a query string.
MaxQuery == 2
\* Assignments to a field of a record instance after its construction.
MaxAssign == 1

\* Attribute names a class body may declare.
AttrNames == {"id", "name", "email"}

(***************************************************************************)
(* Field (orm.py 64-98): name, column_type, primary_key, default.  A       *)
(* default is None, a constant (IntegerField's 0) or a zero-argument       *)
(* callable.                                                               *)
(***************************************************************************)
NoDefault == [callable |-> FALSE, v |-> None]
ZeroDefault == [callable |-> FALSE, v |-> "0"]
CallableDefault == [callable |-> TRUE, v |-> "next_id"]
Defaults == {NoDefault, ZeroDefault, CallableDefault}

\* One entry of a class body: a Field instance, or any other attribute.
Field(key, primary_key, default) ==
    [key |-> key, isField |-> TRUE, name |-> None, primary_key |-> primary_key, default |-> default]

OtherAttr(key) ==
    [key |-> key, isField |-> FALSE, name |-> None, primary_key |-> FALSE, default |-> NoDefault]

AttrsOf(key) ==
    {OtherAttr(key)} \cup {Field(key, pk, d) : pk \in BOOLEAN, d \in Defaults}

\* The class bodies: attributes in declared order, no name twice (attrs is a dict).
ClassBodies ==
    UNION {
        {b \in [1..n -> UNION {AttrsOf(k) : k \in AttrNames}] :
            \A i, j \in 1..n : i # j => b[i].key # b[j].key}
        : n \in 0..MaxFields}

ClassNames == {"Model", "User"}

\* The __table__ attribute of a class body: absent, or a table name.
TableNames == {None, "users"}

(***************************************************************************)
(* String assembly.                                                        *)
(***************************************************************************)
\* '`%s`' % f
Quote(f) == "[" \o f \o "]"

\* sep.join(pieces), each piece a sequence of tokens
RECURSIVE Join(_, _)
Join(pieces, sep) ==
    IF Len(pieces) = 0 THEN <<>>
    ELSE IF Len(pieces) = 1 THEN pieces[1]
    ELSE pieces[1] \o <<sep>> \o Join(Tail(pieces), sep)

create_args_string(num) == Join([n \in 1..num |-> <<"?">>], ", ")

\* sql.replace('?', '%s')
ReplacePlaceholders(sql) == [i \in DOMAIN sql |-> IF sql[i] = "?" THEN "%s" ELSE sql[i]]

(***************************************************************************)
(* ModelMetaclass.__new__ (orm.py 102-143).                                *)
(***************************************************************************)
ScanInit == [mappings |-> EmptyDict, fields |-> <<>>, primaryKey |-> None, raised |-> None]

\* One iteration of "for k, v in attrs.items()" (115-125); the class body's
\* namespace is iterated in the order of declaration.
ScanStepNoDuplicateCheck(st, a) ==
    IF ~a.isField THEN st
    ELSE LET st1 == [st EXCEPT !.mappings = DictSet(st.mappings, a.key, a)]
         IN IF a.primary_key
            THEN [st1 EXCEPT !.primaryKey = a.key]
            ELSE [st1 EXCEPT !.fields = Append(st.fields, a.key)]

ScanStep(st, a) ==
    IF ~a.isField THEN st
    ELSE LET st1 == [st EXCEPT !.mappings = DictSet(st.mappings, a.key, a)]
         IN IF a.primary_key
            THEN IF Truthy(st.primaryKey)
                 THEN [st1 EXCEPT !.raised = "Duplicate primary key for field"]
                 ELSE [st1 EXCEPT !.primaryKey = a.key]
            ELSE [st1 EXCEPT !.fields = Append(st.fields, a.key)]

\* The loop; a raise leaves it at once.
RECURSIVE ScanAttrs(_, _, _)
ScanAttrs(attrs, i, st) ==
    IF i > Len(attrs) \/ st.raised # None THEN st
    ELSE ScanAttrs(attrs, i + 1, ScanStep(st, attrs[i]))

escaped_fields(fields) == [i \in DOMAIN fields |-> <<Quote(fields[i])>>]

SelectTemplate(tableName, primaryKey, fields) ==
    <<"select ", Quote(primaryKey), ", ">> \o Join(escaped_fields(fields), ", ")
        \o <<" from ", Quote(tableName)>>

InsertTemplateKeyFirst(tableName, primaryKey, fields) ==
    <<"insert into ", Quote(tableName), " (", Quote(primaryKey), ", ">>
        \o Join(escaped_fields(fields), ", ")
        \o <<") values (">> \o create_args_string(Len(escaped_fields(fields)) + 1) \o <<")">>

InsertTemplate(tableName, primaryKey, fields) ==
    <<"insert into ", Quote(tableName), " (">> \o Join(escaped_fields(fields), ", ")
        \o <<", ", Quote(primaryKey), ") values (">>
        \o create_args_string(Len(escaped_fields(fields)) + 1) \o <<")">>

\* mappings.get(f).name or f
ColumnName(mappings, f) == IF Truthy(mappings[f].name) THEN mappings[f].name ELSE f

UpdateTemplate(tableName, primaryKey, fields, mappings) ==
    <<"update ", Quote(tableName), " set ">>
        \o Join([i \in DOMAIN fields |-> <<Quote(ColumnName(mappings, fields[i])), "=", "?">>], ", ")
        \o <<" where ", Quote(primaryKey), "=", "?">>

DeleteTemplate(tableName, primaryKey) ==
    <<"delete from ", Quote(tableName), " where ", Quote(primaryKey), "=", "?">>

\* What a class statement leaves behind: status "none" before any class is defined,
\* "base" for Model itself (106-107), "raised" when __new__ raises, "ok" otherwise.
NoClass ==
    [status |-> "none", name |-> None, declared |-> <<>>, raised |-> None,
     mappings |-> EmptyDict, table |-> None, primary_key |-> None, fields |-> <<>>,
     select |-> <<>>, insert |-> <<>>, update |-> <<>>, delete |-> <<>>]

ModelMetaclassNew(name, table, attrs) ==
    IF name = "Model" THEN [NoClass EXCEPT !.status = "base", !.name = name, !.declared = attrs]
    ELSE LET tableName == IF Truthy(table) THEN table ELSE name
             st == ScanAttrs(attrs, 1, ScanInit)
         IN IF st.raised # None
            THEN [NoClass EXCEPT !.status = "raised", !.name = name, !.declared = attrs,
                                 !.raised = st.raised]
            ELSE IF ~Truthy(st.primaryKey)
            THEN [NoClass EXCEPT !.status = "raised", !.name = name, !.declared = attrs,
                                 !.raised = "Primary key not found."]
            ELSE [status |-> "ok", name |-> name, declared |-> attrs, raised |-> None,
                  mappings |-> st.mappings, table |-> tableName,
                  primary_key |-> st.primaryKey, fields |-> st.fields,
                  select |-> SelectTemplate(tableName, st.primaryKey, st.fields),
                  insert |-> InsertTemplate(tableName, st.primaryKey, st.fields),
                  update |-> UpdateTemplate(tableName, st.primaryKey, st.fields, st.mappings),
                  delete |-> DeleteTemplate(tableName, st.primaryKey)]

(***************************************************************************)
(* Model instances (orm.py 145-170).                                       *)
(***************************************************************************)
\* Results of successive calls of a callable default: each call a new value.
GenValues == [n \in 1..(MaxFields + MaxAssign) |-> "g" \o ToString(n)]

\* getattr(self, key, None), through __getattr__ (150-154)
getValue(d, key) == IF key \in DOMAIN d THEN d[key] ELSE None

\* getValueOrDefault (162-170) on the state [d, gen]: the value and the state after.
getValueOrDefaultTruthy(st, key, mappings) ==
    LET value == getValue(st.d, key)
        field == mappings[key]
    IN  IF value = None /\ (field.default.callable \/ (Truthy(field.default.v) /\ field.default.v # "0"))
        THEN LET v == IF field.default.callable
                      THEN GenValues[Len(st.gen) + 1]
                      ELSE field.default.v
             IN [value |-> v, d |-> DictSet(st.d, key, v),
                 gen |-> IF field.default.callable THEN Append(st.gen, key) ELSE st.gen]
        ELSE [value |-> value, d |-> st.d, gen |-> st.gen]

\* The same, the default not stored in the instance.
getValueOrDefaultNoSetattr(st, key, mappings) ==
    LET value == getValue(st.d, key)
        field == mappings[key]
    IN  IF value = None /\ ~(field.default = NoDefault)
        THEN [value |-> IF field.default.callable
                        THEN GenValues[Len(st.gen) + 1]
                        ELSE field.default.v,
              d |-> st.d,
              gen |-> IF field.default.callable THEN Append(st.gen, key) ELSE st.gen]
        ELSE [value |-> value, d |-> st.d, gen |-> st.gen]

getValueOrDefault(st, key, mappings) ==
    LET value == getValue(st.d, key)
        field == mappings[key]
    IN  IF value = None /\ ~(field.default = NoDefault)
        THEN LET v == IF field.default.callable
                      THEN GenValues[Len(st.gen) + 1]
                      ELSE field.default.v
             IN [value |-> v, d |-> DictSet(st.d, key, v),
                 gen |-> IF field.default.callable THEN Append(st.gen, key) ELSE st.gen]
        ELSE [value |-> value, d |-> st.d, gen |-> st.gen]

\* list(map(self.getValueOrDefault, keys)): the calls run in order, each on the
\* instance the one before left.
RECURSIVE MapGetValueOrDefault(_, _, _, _)
MapGetValueOrDefault(keys, i, st, mappings) ==
    IF i > Len(keys) THEN st
    ELSE LET r == getValueOrDefault([d |-> st.d, gen |-> st.gen], keys[i], mappings)
         IN MapGetValueOrDefault(keys, i + 1,
                [args |-> Append(st.args, r.value), d |-> r.d, gen |-> r.gen], mappings)

\* save (224-226): the arguments passed to execute and the instance afterwards.
SaveArgs(c, d, gen) ==
    MapGetValueOrDefault(c.fields \o <<c.primary_key>>, 1,
                         [args |-> <<>>, d |-> d, gen |-> gen], c.mappings)

\* update (233-234)
UpdateArgs(c, d) ==
    [i \in 1..Len(c.fields) |-> getValue(d, c.fields[i])] \o <<getValue(d, c.primary_key)>>

\* remove (241)
RemoveArgs(c, d) == <<getValue(d, c.primary_key)>>

(***************************************************************************)
(* findAll (orm.py 173-199).  A limit is a Python value of some type; v    *)
(* holds the integer itself, or the elements of a tuple or list.           *)
(***************************************************************************)
Limit(type, v) == [type |-> type, v |-> v]

NoLimit == Limit("NoneType", <<>>)

Limits ==
    {NoLimit, Limit("int", <<"0">>), Limit("int", <<"5">>), Limit("bool", <<"True">>),
     Limit("tuple", <<"10", "20">>), Limit("tuple", <<"10">>),
     Limit("list", <<"10", "20">>), Limit("str", <<"x">>)}
        \cup {Limit("tuple", [i \in 1..3 |-> "10"])}

\* isinstance(limit, int): bool is a subclass of int.
IsInt(limit) == limit.type \in {"int", "bool"}

\* A where / orderBy clause is a sequence of tokens; <<>> is None or ''.
Wheres == {<<>>, <<"email", "=", "?">>}
OrderBys == {<<>>, <<"created_at desc">>}
\* args: None, or a list.
ArgLists == {[isNone |-> TRUE, v |-> <<>>], [isNone |-> FALSE, v |-> <<"a@b">>]}

\* Lines 177-197: the statement and the args handed to select, or the error raised.
FindAllQueryTruthyLimit(c, where, args, orderBy, limit) ==
    LET sql1 == <<c.select>> \o (IF where # <<>> THEN <<(<<"where">>), where>> ELSE <<>>)
        args1 == IF args.isNone THEN <<>> ELSE args.v
        sql2 == sql1 \o (IF orderBy # <<>> THEN <<(<<"order by">>), orderBy>> ELSE <<>>)
    IN  IF limit = NoLimit \/ limit = Limit("int", <<"0">>)
        THEN [raised |-> None, sql |-> Join(sql2, " "), args |-> args1]
        ELSE IF IsInt(limit)
        THEN [raised |-> None, sql |-> Join(sql2 \o <<(<<"limit">>), (<<"?">>)>>, " "),
              args |-> Append(args1, limit.v[1])]
        ELSE IF limit.type = "tuple" /\ Len(limit.v) = 2
        THEN [raised |-> None, sql |-> Join(sql2 \o <<(<<"limit">>), (<<"?", ", ", "?">>)>>, " "),
              args |-> args1 \o limit.v]
        ELSE [raised |-> "ValueError: Invalid limit value", sql |-> <<>>, args |-> <<>>]

FindAllQuery(c, where, args, orderBy, limit) ==
    LET sql1 == <<c.select>> \o (IF where # <<>> THEN <<(<<"where">>), where>> ELSE <<>>)
        args1 == IF args.isNone THEN <<>> ELSE args.v
        sql2 == sql1 \o (IF orderBy # <<>> THEN <<(<<"order by">>), orderBy>> ELSE <<>>)
    IN  IF limit = NoLimit
        THEN [raised |-> None, sql |-> Join(sql2, " "), args |-> args1]
        ELSE IF IsInt(limit)
        THEN [raised |-> None, sql |-> Join(sql2 \o <<(<<"limit">>), (<<"?">>)>>, " "),
              args |-> Append(args1, limit.v[1])]
        ELSE IF limit.type = "tuple" /\ Len(limit.v) = 2
        THEN [raised |-> None, sql |-> Join(sql2 \o <<(<<"limit">>), (<<"?", ", ", "?">>)>>, " "),
              args |-> args1 \o limit.v]
        ELSE [raised |-> "ValueError: Invalid limit value", sql |-> <<>>, args |-> <<>>]

\* A row of the table: a value for every column.
Row(c) == [k \in {c.primary_key} \cup {c.fields[i] : i \in DOMAIN c.fields} |-> "v1"]

(***************************************************************************)
(* Handler functions (lxfweb.py 36-74): what inspect.signature reports.    *)
(* A parameter has a name, a kind and, for a keyword-only one, a default   *)
(* or none (the code reads param.default only there).                      *)
(***************************************************************************)
ParamNames == {"request", "name", "id"}

Kinds == {"POSITIONAL_ONLY", "POSITIONAL_OR_KEYWORD", "VAR_POSITIONAL", "KEYWORD_ONLY",
          "VAR_KEYWORD"}

\* Python's order of parameter kinds in a def.
KindRank(kind) ==
    CASE kind = "POSITIONAL_ONLY" -> 0
      [] kind = "POSITIONAL_OR_KEYWORD" -> 1
      [] kind = "VAR_POSITIONAL" -> 2
      [] kind = "KEYWORD_ONLY" -> 3
      [] kind = "VAR_KEYWORD" -> 4

Params ==
    {[name |-> n, kind |-> k, hasDefault |-> d] :
        n \in ParamNames, k \in Kinds, d \in BOOLEAN}

\* The signatures Python accepts: distinct names, kinds in order, at most one *args
\* and one **kw.
Signatures ==
    UNION {
        {sig \in [1..n -> Params] :
            /\ \A i \in 1..n : sig[i].hasDefault => sig[i].kind = "KEYWORD_ONLY"
            /\ \A i, j \in 1..n : i < j =>
                /\ sig[i].name # sig[j].name
                /\ KindRank(sig[i].kind) <= KindRank(sig[j].kind)
                /\ sig[i].kind = sig[j].kind => sig[i].kind \notin {"VAR_POSITIONAL", "VAR_KEYWORD"}}
        : n \in 0..MaxParams}

\* get_required_kw_args (36-42)
get_required_kw_args(sig) ==
    LET req1 == SelectSeq(sig, LAMBDA p : p.kind = "KEYWORD_ONLY" /\ ~p.hasDefault)
    IN [i \in DOMAIN req1 |-> req1[i].name]

\* get_named_kw_args (44-50)
get_named_kw_args(sig) ==
    LET named == SelectSeq(sig, LAMBDA p : p.kind = "KEYWORD_ONLY")
    IN [i \in DOMAIN named |-> named[i].name]

\* has_named_kw_args (52-56): True, or None (falsy)
has_named_kw_args(sig) == \E i \in DOMAIN sig : sig[i].kind = "KEYWORD_ONLY"

\* has_var_kw_arg (58-62)
has_var_kw_arg(sig) == \E i \in DOMAIN sig : sig[i].kind = "VAR_KEYWORD"

\* has_request_arg (64-74): the loop from parameter i on; [raised, found].
RECURSIVE has_request_arg_loop(_, _, _)
has_request_arg_loop(sig, i, found) ==
    IF i > Len(sig) THEN [raised |-> None, found |-> found]
    ELSE IF sig[i].name = "request" THEN has_request_arg_loop(sig, i + 1, TRUE)
    ELSE IF found /\ sig[i].kind # "VAR_POSITIONAL" /\ sig[i].kind # "KEYWORD_ONLY"
                  /\ sig[i].kind # "VAR_KEYWORD"
    THEN [raised |-> "ValueError: request parameter must be the last named parameter",
          found |-> found]
    ELSE has_request_arg_loop(sig, i + 1, found)

RECURSIVE has_request_arg_loop_var_kw(_, _, _)
has_request_arg_loop_var_kw(sig, i, found) ==
    IF i > Len(sig) THEN [raised |-> None, found |-> found]
    ELSE IF sig[i].name = "request" THEN has_request_arg_loop_var_kw(sig, i + 1, TRUE)
    ELSE IF found /\ sig[i].kind # "VAR_POSITIONAL" /\ sig[i].kind # "KEYWORD_ONLY"
    THEN [raised |-> "ValueError: request parameter must be the last named parameter",
          found |-> found]
    ELSE has_request_arg_loop_var_kw(sig, i + 1, found)

has_request_arg_rejecting_var_kw(sig) == has_request_arg_loop_var_kw(sig, 1, FALSE)

has_request_arg(sig) == has_request_arg_loop(sig, 1, FALSE)

\* RequestHandler.__init__ (78-85), called by add_route (145-153) for a function
\* that carries __method__ and __route__ (decorated) or does not.
NoHandler ==
    [status |-> "none", raised |-> None, fn |-> <<>>, has_request_arg |-> FALSE,
     has_var_kw_arg |-> FALSE, has_named_kw_args |-> FALSE, named_kw_args |-> <<>>,
     required_kw_args |-> <<>>]

add_route(decorated, sig) ==
    IF ~decorated
    THEN [NoHandler EXCEPT !.status = "raised", !.fn = sig,
                           !.raised = "ValueError: @get or @post not defined"]
    ELSE LET r == has_request_arg(sig)
         IN IF r.raised # None
            THEN [NoHandler EXCEPT !.status = "raised", !.fn = sig, !.raised = r.raised]
            ELSE [status |-> "ok", raised |-> None, fn |-> sig,
                  has_request_arg |-> r.found,
                  has_var_kw_arg |-> has_var_kw_arg(sig),
                  has_named_kw_args |-> has_named_kw_args(sig),
                  named_kw_args |-> get_named_kw_args(sig),
                  required_kw_args |-> get_required_kw_args(sig)]

(***************************************************************************)
(* Requests.                                                               *)
(***************************************************************************)
Methods == {"GET", "POST", "HEAD"}

\* request.content_type: '' when there is none, else the media type and what
\* follows it.
ContentTypes ==
    {<<>>, <<"application/json">>, <<"Application/JSON">>,
     <<"application/json", "; charset=utf-8">>,
     <<"application/x-www-form-urlencoded">>, <<"multipart/form-data", "; boundary=x">>,
     <<"text/plain">>}

\* str.lower()
Lower(ct) == [i \in DOMAIN ct |-> IF ct[i] = "Application/JSON" THEN "application/json" ELSE ct[i]]

\* str.startswith(prefix), prefix a media type
StartsWith(ct, prefix) == Len(ct) > 0 /\ ct[1] = prefix

\* The text of a tokenised string.
RECURSIVE Text(_)
Text(toks) == IF Len(toks) = 0 THEN "" ELSE toks[1] \o Text(Tail(toks))

\* A body: what request.json() decodes it to (an object with items, an array, a
\* string) and what request.post() parses from it (the items).
Dicts(keys, values) == UNION {[S -> values] : S \in SUBSET keys}

Bodies ==
    {[shape |-> "dict", items |-> d] : d \in {EmptyDict, [k \in {"name"} |-> "Bob"],
                                             [k \in {"name", "age"} |-> "Bob"]}}
        \cup {[shape |-> "list", items |-> EmptyDict], [shape |-> "str", items |-> EmptyDict]}

\* A query string: name=value pairs in order.
QueryPairs == {<<"name", "Bob">>, <<"name", "Al">>, <<"age", "30">>}
QueryStrings == UNION {[1..n -> QueryPairs] : n \in 0..MaxQuery}

\* request.match_info: the parameters matched in the path.
MatchInfos == Dicts({"id", "name"}, {"p"})

NoRequest ==
    [method |-> None, content_type |-> <<>>, body |-> [shape |-> "str", items |-> EmptyDict],
     query_string |-> <<>>, match_info |-> EmptyDict]

Requests ==
    {[NoRequest EXCEPT !.method = "GET", !.query_string = qs, !.match_info = m] :
        qs \in QueryStrings, m \in MatchInfos}
    \cup {[NoRequest EXCEPT !.method = "POST", !.content_type = ct, !.body = b, !.match_info = m] :
        ct \in ContentTypes, b \in Bodies, m \in MatchInfos}
    \cup {[NoRequest EXCEPT !.method = "HEAD", !.match_info = m] : m \in MatchInfos}

\* parse.parse_qs(qs, True): each name with the list of its values in order.
RECURSIVE parse_qs(_, _, _)
parse_qs(qs, i, acc) ==
    IF i > Len(qs) THEN acc
    ELSE LET k == qs[i][1]
             vs == IF k \in DOMAIN acc THEN acc[k] ELSE <<>>
         IN parse_qs(qs, i + 1, DictSet(acc, k, Append(vs, qs[i][2])))

\* The request object as a value of the keyword mapping.
RequestObject == "<request>"

(***************************************************************************)
(* What the handler function does when called: return a value, raise an    *)
(* APIError, raise anything else (a TypeError of the call itself included),*)
(* or call findAll(limit=...) on a model class and return its result.      *)
(***************************************************************************)
APIErrors ==
    {[error |-> "value:invalid", data |-> "email", message |-> "Invalid email."],
     [error |-> "permission:forbidden", data |-> "permission", message |-> ""]}

NoError == [error |-> None, data |-> None, message |-> None]

Behaviours ==
    {[kind |-> "return", value |-> v, exc |-> None, apierror |-> NoError, limit |-> NoLimit] :
        v \in {"r1", "r2"}}
    \cup {[kind |-> "APIError", value |-> None, exc |-> "APIError", apierror |-> e, limit |-> NoLimit] :
        e \in APIErrors}
    \cup {[kind |-> "raise", value |-> None, exc |-> "TypeError", apierror |-> NoError, limit |-> NoLimit]}
    \cup {[kind |-> "findAll", value |-> "rows", exc |-> None, apierror |-> NoError, limit |-> l] :
        l \in {Limit("int", <<"5">>), Limit("str", <<"x">>), Limit("tuple", <<"10">>)}}

NoBehaviour ==
    [kind |-> "none", value |-> None, exc |-> None, apierror |-> NoError, limit |-> NoLimit]

\* The model class the handlers query.
ExampleClass ==
    ModelMetaclassNew("User", "users",
        <<Field("id", TRUE, CallableDefault), Field("name", FALSE, NoDefault)>>)

(***************************************************************************)
(* RequestHandler.__call__ (lxfweb.py 87-138).                             *)
(***************************************************************************)
NoResponse ==
    [kind |-> "none", status |-> 0, text |-> "", value |-> None, exc |-> None,
     dict |-> EmptyDict, invoked |-> FALSE, kw |-> EmptyDict, did |-> NoBehaviour]

\* return web.HTTPBadRequest(text) (93, 98, 104, 132): the message is passed as a
\* positional argument.  Where the framework's constructor takes it so, the
\* result is a response of status 400 carrying the text; where the constructor
\* takes keyword arguments only (the file's second version passes text=..., and
\* says at line 257 that it must), the call raises TypeError and nothing is
\* returned.
PositionalArgumentError == "TypeError: __init__() takes 1 positional argument but 2 were given"

HTTPBadRequest(text, positional) ==
    IF positional
    THEN [NoResponse EXCEPT !.kind = "HTTPBadRequest", !.status = 400, !.text = text]
    ELSE [NoResponse EXCEPT !.kind = "raised", !.exc = PositionalArgumentError]

NoneKw == [isNone |-> TRUE, d |-> EmptyDict]
Kw(d) == [isNone |-> FALSE, d |-> d]

\* Lines 89-110: the keyword mapping read from the request (None when there is
\* none), or the response returned early.
ExtractKw(h, request, positional) ==
    IF ~(h.has_var_kw_arg \/ h.has_named_kw_args \/ Len(h.required_kw_args) > 0)
    THEN [early |-> FALSE, resp |-> NoResponse, kw |-> NoneKw]
    ELSE IF request.method = "POST"
    THEN IF request.content_type = <<>>
         THEN [early |-> TRUE, resp |-> HTTPBadRequest("Missing Content-Type.", positional), kw |-> NoneKw]
         ELSE LET ct == Lower(request.content_type)
              IN IF StartsWith(ct, "application/json")
                 THEN IF request.body.shape # "dict"
                      THEN [early |-> TRUE, resp |-> HTTPBadRequest("JSON body must be object.", positional),
                            kw |-> NoneKw]
                      ELSE [early |-> FALSE, resp |-> NoResponse, kw |-> Kw(request.body.items)]
                 ELSE IF StartsWith(ct, "application/x-www-form-urlencoded")
                         \/ StartsWith(ct, "multipart/form-data")
                 THEN [early |-> FALSE, resp |-> NoResponse, kw |-> Kw(request.body.items)]
                 ELSE [early |-> TRUE,
                       resp |-> HTTPBadRequest("Unsupported Content-Type: "
                                                \o Text(request.content_type), positional),
                       kw |-> NoneKw]
    ELSE IF request.method = "GET" /\ request.query_string # <<>>
    THEN LET parsed == parse_qs(request.query_string, 1, EmptyDict)
         IN [early |-> FALSE, resp |-> NoResponse,
             kw |-> Kw([k \in DOMAIN parsed |-> parsed[k][1]])]
    ELSE [early |-> FALSE, resp |-> NoResponse, kw |-> NoneKw]

FilterNamedOnlyWithVarKw(h, d) ==
    IF h.has_var_kw_arg /\ Len(h.named_kw_args) > 0
    THEN LET names == {h.named_kw_args[i] : i \in DOMAIN h.named_kw_args}
         IN [k \in names \cap DOMAIN d |-> d[k]]
    ELSE d

\* Lines 114-120: remove all unnamed kw.
FilterNamed(h, d) ==
    IF ~h.has_var_kw_arg /\ Len(h.named_kw_args) > 0
    THEN LET names == {h.named_kw_args[i] : i \in DOMAIN h.named_kw_args}
         IN [k \in names \cap DOMAIN d |-> d[k]]
    ELSE d

\* Lines 122-125: the path parameters are written over the mapping.
MergeMatchInfo(d, match_info) ==
    [k \in DOMAIN d \cup DOMAIN match_info |-> IF k \in DOMAIN match_info THEN match_info[k] ELSE d[k]]

\* Lines 111-127: the mapping the handler is to be called with.
AssembleKw(h, request, kw) ==
    LET kw1 == IF kw.isNone THEN request.match_info
               ELSE MergeMatchInfo(FilterNamed(h, kw.d), request.match_info)
    IN IF h.has_request_arg THEN DictSet(kw1, "request", RequestObject) ELSE kw1

\* Lines 129-132: the first required name that is missing, or None.
RECURSIVE MissingRequired(_, _, _)
MissingRequired(required, i, kw) ==
    IF i > Len(required) THEN None
    ELSE IF required[i] \notin DOMAIN kw THEN required[i]
    ELSE MissingRequired(required, i + 1, kw)

InvokeHandlerCatchAll(kw, b) ==
    LET called == [NoResponse EXCEPT !.invoked = TRUE, !.kw = kw, !.did = b]
    IN  IF b.kind = "return" THEN [called EXCEPT !.kind = "return", !.value = b.value]
        ELSE [called EXCEPT !.kind = "dict",
                            !.dict = [error |-> b.apierror.error, data |-> b.apierror.data,
                                      message |-> b.apierror.message]]

\* Lines 134-138: the call of the handler function and what the adapter makes of it.
InvokeHandler(kw, b) ==
    LET called == [NoResponse EXCEPT !.invoked = TRUE, !.kw = kw, !.did = b]
    IN  CASE b.kind = "return" -> [called EXCEPT !.kind = "return", !.value = b.value]
          [] b.kind = "APIError" ->
                [called EXCEPT !.kind = "dict",
                               !.dict = [error |-> b.apierror.error, data |-> b.apierror.data,
                                         message |-> b.apierror.message]]
          [] b.kind = "raise" -> [called EXCEPT !.kind = "raised", !.exc = b.exc]
          [] b.kind = "findAll" ->
                LET q == FindAllQuery(ExampleClass, <<>>, [isNone |-> TRUE, v |-> <<>>], <<>>, b.limit)
                IN IF q.raised # None
                   THEN [called EXCEPT !.kind = "raised", !.exc = q.raised]
                   ELSE [called EXCEPT !.kind = "return", !.value = b.value]

\* __call__ as a whole.
HandlerCall(h, request, b, positional) ==
    LET x == ExtractKw(h, request, positional)
    IN IF x.early THEN x.resp
       ELSE LET kw == AssembleKw(h, request, x.kw)
                missing == MissingRequired(h.required_kw_args, 1, kw)
            IN IF missing # None
               THEN HTTPBadRequest("Missing argument: " \o missing, positional)
               ELSE InvokeHandler(kw, b)

(***************************************************************************)
(* select and execute on the connection pool (orm.py 13-56).  Request      *)
(* tasks are coroutines of one event loop: a task runs until its next      *)
(* yield from, so each action is the code between two suspension points.   *)
(***************************************************************************)
\* Request tasks running at once.
MaxTasks == 2
\* maxsize of the pool (line 25; 10 unless configured).
MaxSize == 1

Tasks == 1..MaxTasks

\* Exceptions the driver raises from cursor(), execute(), fetch*() and close().
DriverErrors == {"OperationalError", "ProgrammingError"}

\* The callers of select and execute: findAll (198), findNumber (209), find (218),
\* save (227), update (235), remove (242), with the size they pass to select.
Cruds ==
    {[name |-> "findAll", fn |-> "select", size |-> None],
     [name |-> "findNumber", fn |-> "select", size |-> "1"],
     [name |-> "find", fn |-> "select", size |-> "1"],
     [name |-> "save", fn |-> "execute", size |-> None],
     [name |-> "update", fn |-> "execute", size |-> None],
     [name |-> "remove", fn |-> "execute", size |-> None]}

\* The suspension points inside the with block: select 35, 36, 38/40, 41 and
\* execute 50, 51, 53.
InBlock == {"cursor", "execute", "fetch", "close"}

\* The point after pc in fn; "returned" after the last one.
NextPc(fn, pc) ==
    IF pc = "cursor" THEN "execute"
    ELSE IF pc = "execute" THEN (IF fn = "select" THEN "fetch" ELSE "close")
    ELSE IF pc = "fetch" THEN "close"
    ELSE "returned"

\* What the call returns: select the rows of fetchmany(size) or fetchall() (37-43),
\* execute the cursor's rowcount (52, 56).
ResultOf(fn, size) ==
    IF fn = "execute" THEN "rowcount"
    ELSE IF Truthy(size) THEN "fetchmany" ELSE "fetchall"

IdleTask ==
    [crud |-> None, fn |-> None, size |-> None, pc |-> "idle", holds |-> FALSE,
     queries |-> 0, driver |-> None, exc |-> None, crudExc |-> None, result |-> None]

\* Leaving the with block (34, 48), by return or by an exception passing through:
\* the context manager hands the connection back to the pool.
LeaveOnReturnOnly(p, raised) == IF raised THEN p ELSE [p EXCEPT !.used = @ - 1]

Leave(p, raised) == [p EXCEPT !.used = @ - 1]

(***************************************************************************)
(* State.                                                                  *)
(*   cls       the class the class statement produced (NoClass before it)  *)
(*   inst      the record instance in hand: alive, and its dict d          *)
(*   genCalls  the fields whose callable default was invoked on inst       *)
(*   op        the operation that just ran: its name, its inputs (call),   *)
(*             the instance dict before it, the statement and args handed  *)
(*             to select/execute, what the driver was sent, the affected-  *)
(*             row count, the warning, the error raised, the result        *)
(*   handler   the RequestHandler that add_route built (NoHandler before)  *)
(*   req       the request being served (NoRequest when there is none)     *)
(*   resp      what __call__ made of req: the response or result returned  *)
(*             or the exception that left it, whether the handler function *)
(*             was called, the keyword mapping it was called with and what *)
(*             it did                                                      *)
(*   pool      the connection pool: its maxsize and the connections out    *)
(*   task      per request task, the select or execute call it is in: the  *)
(*             operation that made it, its position, whether it holds a    *)
(*             connection, the statements it sent, what the driver raised, *)
(*             what left the call and the operation, the result            *)
(***************************************************************************)
NoCall == [where |-> <<>>, args |-> [isNone |-> TRUE, v |-> <<>>], orderBy |-> <<>>, limit |-> NoLimit]

Idle ==
    [name |-> "idle", call |-> NoCall, before |-> EmptyDict, sql |-> <<>>, args |-> <<>>,
     driver |-> <<>>, rows |-> 0, warned |-> FALSE, raised |-> None, result |-> <<>>,
     executed |-> 0, returns |-> None]

NoInstance == [alive |-> FALSE, d |-> EmptyDict, saved |-> <<>>, assigns |-> 0]

\* Affected-row counts the driver may report.
AffectedRows == {0, 1, 2}

\* What save, update and remove do with the count execute returned (228-229,
\* 236-237, 243-244): a warning and nothing more, then the end of the function
\* body; one statement was handed to execute.
CheckAffectedRaising(rows) ==
    [warned |-> FALSE, raised |-> IF rows # 1 THEN "StandardError" ELSE None,
     returns |-> None, executed |-> 1]

CheckAffected(rows) ==
    [warned |-> rows # 1, raised |-> None, returns |-> None, executed |-> 1]

\* Values a caller stores in a field.
InstValues == {None, "v1"}

Init ==
    /\ cls = NoClass
    /\ inst = NoInstance
    /\ genCalls = <<>>
    /\ op = Idle
    /\ handler = NoHandler
    /\ req = NoRequest
    /\ resp = NoResponse
    /\ pool = [maxsize |-> MaxSize, used |-> 0]
    /\ task = [t \in Tasks |-> IdleTask]

\* class <name>(Model): <attrs>   -- runs ModelMetaclass.__new__ once.
DefineClass(name, table, attrs) ==
    /\ cls.status = "none"
    /\ cls' = ModelMetaclassNew(name, table, attrs)
    /\ UNCHANGED <<inst, genCalls, op, handler, req, resp, pool, task>>

\* Model.__init__ (147-148): cls(**kw)
New(kw) ==
    /\ cls.status = "ok"
    /\ op.name = "idle"
    /\ ~inst.alive
    /\ inst' = [NoInstance EXCEPT !.alive = TRUE, !.d = kw]
    /\ genCalls' = <<>>
    /\ UNCHANGED <<cls, op, handler, req, resp, pool, task>>

\* save (223-229), with execute (45-56) reporting `rows` affected rows.
Save(rows) ==
    /\ cls.status = "ok"
    /\ inst.alive
    /\ op.name = "idle"
    /\ LET st == SaveArgs(cls, inst.d, genCalls)
       IN /\ inst' = [inst EXCEPT !.d = st.d, !.saved = st.args]
          /\ genCalls' = st.gen
          /\ op' = [Idle EXCEPT !.name = "save", !.before = inst.d, !.sql = cls.insert,
                                !.args = st.args, !.driver = ReplacePlaceholders(cls.insert),
                                !.rows = rows, !.warned = CheckAffected(rows).warned,
                                !.raised = CheckAffected(rows).raised,
                                !.returns = CheckAffected(rows).returns,
                                !.executed = CheckAffected(rows).executed]
    /\ UNCHANGED <<cls, handler, req, resp, pool, task>>

\* update (231-237)
Update(rows) ==
    /\ cls.status = "ok"
    /\ inst.alive
    /\ op.name = "idle"
    /\ op' = [Idle EXCEPT !.name = "update", !.before = inst.d, !.sql = cls.update,
                          !.args = UpdateArgs(cls, inst.d),
                          !.driver = ReplacePlaceholders(cls.update),
                          !.rows = rows, !.warned = CheckAffected(rows).warned,
                                !.raised = CheckAffected(rows).raised,
                                !.returns = CheckAffected(rows).returns,
                                !.executed = CheckAffected(rows).executed]
    /\ UNCHANGED <<cls, inst, genCalls, handler, req, resp, pool, task>>

\* remove (239-244)
Remove(rows) ==
    /\ cls.status = "ok"
    /\ inst.alive
    /\ op.name = "idle"
    /\ op' = [Idle EXCEPT !.name = "remove", !.before = inst.d, !.sql = cls.delete,
                          !.args = RemoveArgs(cls, inst.d),
                          !.driver = ReplacePlaceholders(cls.delete),
                          !.rows = rows, !.warned = CheckAffected(rows).warned,
                                !.raised = CheckAffected(rows).raised,
                                !.returns = CheckAffected(rows).returns,
                                !.executed = CheckAffected(rows).executed]
    /\ UNCHANGED <<cls, inst, genCalls, handler, req, resp, pool, task>>

\* findAll (173-199), with select (30-43) returning nrows rows.  A classmethod: it
\* reads no instance, and is explored from the states with no instance in hand.
FindAll(where, args, orderBy, limit, nrows) ==
    /\ cls.status = "ok"
    /\ ~inst.alive
    /\ op.name = "idle"
    /\ LET q == FindAllQuery(cls, where, args, orderBy, limit)
           call == [where |-> where, args |-> args, orderBy |-> orderBy, limit |-> limit]
       IN op' = IF q.raised # None
                THEN [Idle EXCEPT !.name = "findAll", !.call = call, !.raised = q.raised]
                ELSE [Idle EXCEPT !.name = "findAll", !.call = call, !.sql = q.sql,
                                  !.args = q.args, !.driver = ReplacePlaceholders(q.sql),
                                  !.result = [i \in 1..nrows |-> Row(cls)]]
    /\ UNCHANGED <<cls, inst, genCalls, handler, req, resp, pool, task>>

\* The operation returns to its caller.
Return ==
    /\ op.name # "idle"
    /\ op' = Idle
    /\ UNCHANGED <<cls, inst, genCalls, handler, req, resp, pool, task>>

\* __setattr__ (156-157): the caller assigns a field of the record.
SetAttr(key, value) ==
    /\ inst.alive
    /\ op.name = "idle"
    /\ inst.assigns < MaxAssign
    /\ inst' = [inst EXCEPT !.d = DictSet(inst.d, key, value), !.saved = <<>>,
                            !.assigns = @ + 1]
    /\ UNCHANGED <<cls, genCalls, op, handler, req, resp, pool, task>>

\* The caller drops the instance.
Drop ==
    /\ inst.alive
    /\ op.name = "idle"
    /\ inst' = NoInstance
    /\ genCalls' = <<>>
    /\ UNCHANGED <<cls, op, handler, req, resp, pool, task>>

Keys(c) == {c.primary_key} \cup {c.fields[i] : i \in DOMAIN c.fields}

\* Guards are repeated ahead of the quantifiers so that a disabled operation costs
\* no enumeration of its inputs.
NextOrm ==
    \/ /\ cls.status = "none"
       /\ \E name \in ClassNames, table \in TableNames, attrs \in ClassBodies :
            DefineClass(name, table, attrs)
    \/ /\ cls.status = "ok" /\ op.name = "idle" /\ ~inst.alive
       /\ \E S \in SUBSET Keys(cls) : \E kw \in [S -> InstValues] : New(kw)
    \/ \E rows \in AffectedRows : Save(rows)
    \/ \E rows \in AffectedRows : Update(rows)
    \/ \E rows \in AffectedRows : Remove(rows)
    \/ /\ cls.status = "ok" /\ op.name = "idle" /\ ~inst.alive
       /\ \E where \in Wheres, args \in ArgLists, orderBy \in OrderBys, limit \in Limits,
             nrows \in 0..MaxRows : FindAll(where, args, orderBy, limit, nrows)
    \/ /\ inst.alive /\ op.name = "idle" /\ inst.assigns < MaxAssign
       /\ \E key \in Keys(cls), value \in InstValues : SetAttr(key, value)
    \/ Return
    \/ Drop

SpecOrm == Init /\ [][NextOrm]_vars

\* add_route(app, fn) at startup: once per handler function.
Register(decorated, sig) ==
    /\ handler.status = "none"
    /\ handler' = add_route(decorated, sig)
    /\ UNCHANGED <<req, resp, cls, inst, genCalls, op, pool, task>>

\* The server hands a request to the registered RequestHandler; the handler
\* function, if it is called, behaves as b; the framework's HTTPBadRequest takes
\* a positional message or does not.
Call(request, b, positional) ==
    /\ handler.status = "ok"
    /\ req = NoRequest
    /\ req' = request
    /\ resp' = HandlerCall(handler, request, b, positional)
    /\ UNCHANGED <<handler, cls, inst, genCalls, op, pool, task>>

\* The request is over: its response (or the exception) has left the adapter.
Respond ==
    /\ req # NoRequest
    /\ req' = NoRequest
    /\ resp' = NoResponse
    /\ UNCHANGED <<handler, cls, inst, genCalls, op, pool, task>>

NextWeb ==
    \/ /\ handler.status = "none"
       /\ \E decorated \in BOOLEAN, sig \in Signatures : Register(decorated, sig)
    \/ /\ handler.status = "ok" /\ req = NoRequest
       /\ \E request \in Requests, b \in Behaviours, positional \in BOOLEAN :
            Call(request, b, positional)
    \/ Respond

SpecWeb == Init /\ [][NextWeb]_vars

\* A request task calls select or execute through the operation c: the log line
\* (32, 47), then the request for a connection.
Begin(t, c) ==
    /\ task[t].pc = "idle"
    /\ task' = [task EXCEPT ![t] = [IdleTask EXCEPT !.crud = c.name, !.fn = c.fn,
                                                   !.size = c.size, !.pc = "acquire"]]
    /\ UNCHANGED <<pool, cls, inst, genCalls, op, handler, req, resp>>

\* yield from __pool (34, 48): the task gets a connection when the pool has one to
\* give, and stays suspended here while maxsize connections are out.
Acquire(t) ==
    /\ task[t].pc = "acquire"
    /\ pool.used < pool.maxsize
    /\ pool' = [pool EXCEPT !.used = @ + 1]
    /\ task' = [task EXCEPT ![t].pc = "cursor", ![t].holds = TRUE]
    /\ UNCHANGED <<cls, inst, genCalls, op, handler, req, resp>>

\* The driver completes the awaited call; after the last one the function returns
\* its result through the end of the with block.
DriverStep(t) ==
    /\ task[t].pc \in InBlock
    /\ LET next == NextPc(task[t].fn, task[t].pc)
           sent == IF task[t].pc = "execute" THEN task[t].queries + 1 ELSE task[t].queries
       IN IF next = "returned"
          THEN /\ pool' = Leave(pool, FALSE)
               /\ task' = [task EXCEPT ![t].pc = "returned", ![t].holds = FALSE,
                                       ![t].result = ResultOf(task[t].fn, task[t].size)]
          ELSE /\ pool' = pool
               /\ task' = [task EXCEPT ![t].pc = next, ![t].queries = sent]
    /\ UNCHANGED <<cls, inst, genCalls, op, handler, req, resp>>

\* The driver raises e in the awaited call: in execute the except clause raises it
\* again (54-55); it passes through the with block and leaves select or execute,
\* and then the operation that called it, which has no try around the call.
DriverRaise(t, e) ==
    /\ task[t].pc \in InBlock
    /\ pool' = Leave(pool, TRUE)
    /\ task' = [task EXCEPT ![t].pc = "raised", ![t].holds = FALSE,
                            ![t].queries = IF task[t].pc = "execute" THEN @ + 1 ELSE @,
                            ![t].driver = e, ![t].exc = e, ![t].crudExc = e]
    /\ UNCHANGED <<cls, inst, genCalls, op, handler, req, resp>>

\* The caller has the result or the exception; the task goes on to other work.
Finish(t) ==
    /\ task[t].pc \in {"returned", "raised"}
    /\ task' = [task EXCEPT ![t] = IdleTask]
    /\ UNCHANGED <<pool, cls, inst, genCalls, op, handler, req, resp>>

NextPool ==
    \/ \E t \in Tasks : task[t].pc = "idle" /\ \E c \in Cruds : Begin(t, c)
    \/ \E t \in Tasks : Acquire(t)
    \/ \E t \in Tasks : DriverStep(t)
    \/ \E t \in Tasks : task[t].pc \in InBlock /\ \E e \in DriverErrors : DriverRaise(t, e)
    \/ \E t \in Tasks : Finish(t)

SpecPool == Init /\ [][NextPool]_vars

\* Every awaited driver call ends (the proviso that in-flight queries finish), and
\* a task waiting for a connection is not passed over for ever: the pool wakes
\* its waiters on every release.
FairPool == \A t \in Tasks : WF_vars(DriverStep(t)) /\ SF_vars(Acquire(t))

SpecPoolFair == Init /\ [][NextPool]_vars /\ FairPool

(***************************************************************************)
(* Properties.                                                             *)
(***************************************************************************)
Range(seq) == {seq[i] : i \in DOMAIN seq}

Count(seq, tok) == Cardinality({i \in DOMAIN seq : seq[i] = tok})

\* The first position of tok in seq (tok occurs in seq).
IndexOf(seq, tok) == CHOOSE i \in DOMAIN seq : seq[i] = tok /\ \A j \in 1..(i - 1) : seq[j] # tok

\* The tokens of seq after the first occurrence of tok; none if tok does not occur.
After(seq, tok) ==
    IF tok \in Range(seq) THEN SubSeq(seq, IndexOf(seq, tok) + 1, Len(seq)) ELSE <<>>

\* The column names an insert statement lists between "(" and ") values (".
Columns(insert) ==
    SelectSeq(SubSeq(insert, IndexOf(insert, " (") + 1, IndexOf(insert, ") values (") - 1),
              LAMBDA t : t # ", ")

\* The declared fields of a class body.
DeclaredFields(declared) == SelectSeq(declared, LAMBDA a : a.isField)
DeclaredKeys(declared) == SelectSeq(declared, LAMBDA a : a.isField /\ a.primary_key)
DeclaredNonKeys(declared) == SelectSeq(declared, LAMBDA a : a.isField /\ ~a.primary_key)

\* C1: for a class with exactly one primary key and N non-key fields, the insert
\* template lists the N non-key columns in declared order, then the primary key,
\* and holds N+1 placeholders; save hands execute that template and N+1 values in
\* the same order: each non-key field's value in declared order, the primary
\* key's value last.
C1_InsertColumnsAndArgs ==
    cls.status = "ok" =>
        LET nonkey == DeclaredNonKeys(cls.declared)
            key == DeclaredKeys(cls.declared)[1].key
            N == Len(nonkey)
        IN /\ Columns(cls.insert) = [i \in 1..N |-> Quote(nonkey[i].key)] \o <<Quote(key)>>
           /\ Count(cls.insert, "?") = N + 1
           /\ op.name = "save" =>
                /\ op.sql = cls.insert
                /\ Len(op.args) = N + 1
                /\ \A i \in 1..N : op.args[i] = getValue(inst.d, nonkey[i].key)
                /\ op.args[N + 1] = getValue(inst.d, key)

\* A save of a record of a class with two non-key fields whose values differ from
\* each other and from the key's.
C1_Witness ==
    /\ cls.status = "ok"
    /\ Len(cls.fields) = 2
    /\ op.name = "save"
    /\ Cardinality(Range(op.args)) = 3

\* C2: for a class other than the base, schema derivation succeeds exactly when one
\* declared field is a primary key; with none, or with two or more, the class
\* statement raises and no table name, primary key, field list or template
\* exists; on success the primary key is not among the non-key fields and every
\* other declared field is among them exactly once.
C2_ExactlyOnePrimaryKey ==
    cls.status \notin {"none", "base"} =>
        LET keys == DeclaredKeys(cls.declared)
            others == DeclaredNonKeys(cls.declared)
        IN /\ (cls.status = "ok") <=> (Len(keys) = 1)
           /\ cls.status # "ok" =>
                /\ cls.status = "raised"
                /\ cls.raised # None
                /\ cls.table = None /\ cls.primary_key = None /\ cls.fields = <<>>
                /\ cls.mappings = EmptyDict
                /\ cls.select = <<>> /\ cls.insert = <<>> /\ cls.update = <<>> /\ cls.delete = <<>>
           /\ cls.status = "ok" =>
                /\ cls.primary_key = keys[1].key
                /\ cls.primary_key \notin Range(cls.fields)
                /\ \A i \in DOMAIN others : Count(cls.fields, others[i].key) = 1
                /\ Range(cls.fields) = {others[i].key : i \in DOMAIN others}

\* A class statement with two primary keys has raised.
C2_Witness ==
    /\ cls.status = "raised"
    /\ Len(DeclaredKeys(cls.declared)) = 2

\* C3: findAll with an integer limit adds one placeholder and appends the integer
\* to args; with a two-element tuple it adds two placeholders and appends the two
\* elements in order; with any other limit that is not None it raises before any
\* query is executed; with no limit it adds no placeholder and no argument.
\* Whenever it succeeds, the limit clause holds as many placeholders as values
\* were appended to args.
C3_LimitPlaceholders ==
    op.name = "findAll" =>
        LET limit == op.call.limit
            args0 == IF op.call.args.isNone THEN <<>> ELSE op.call.args.v
            added == Count(After(op.sql, "limit"), "?")
            total == Count(op.sql, "?")
            ok == op.raised = None /\ ReplacePlaceholders(op.sql) = op.driver /\ op.sql # <<>>
        IN /\ limit.type \in {"int", "bool"} =>
                ok /\ added = 1 /\ op.args = Append(args0, limit.v[1])
           /\ (limit.type = "tuple" /\ Len(limit.v) = 2) =>
                ok /\ added = 2 /\ op.args = args0 \o limit.v
           /\ limit.type = "NoneType" => ok /\ added = 0 /\ op.args = args0
           /\ (limit.type \notin {"int", "bool", "NoneType"}
                    /\ ~(limit.type = "tuple" /\ Len(limit.v) = 2)) =>
                /\ op.raised = "ValueError: Invalid limit value"
                /\ op.sql = <<>> /\ op.driver = <<>> /\ op.result = <<>>
           /\ op.raised = None =>
                /\ added = Len(op.args) - Len(args0)
                /\ total = added + Count(op.call.where, "?")

\* findAll with a where clause, its argument and limit=(10, 20) has run its query.
C3_Witness ==
    /\ op.name = "findAll"
    /\ op.call.limit.type = "tuple"
    /\ op.raised = None
    /\ op.args = <<"a@b", "10", "20">>

\* C4: save hands execute, for a non-key field that is unset, the field's default
\* when that is a constant other than None and the result of calling it (at that
\* save) when it is callable; update hands execute None for an unset non-key
\* field, whatever its default.
C4_SaveDefaultsUpdateNone ==
    /\ op.name = "save" =>
        \A i \in DOMAIN cls.fields :
            LET f == cls.fields[i]
                default == cls.mappings[f].default
            IN f \notin DOMAIN op.before =>
                /\ (~default.callable /\ default.v # None) => op.args[i] = default.v
                /\ default.callable =>
                    /\ op.args[i] \in Range(GenValues)
                    /\ Count(genCalls, f) = 1
                    /\ \A j \in DOMAIN op.args : j # i => op.args[j] # op.args[i]
    /\ op.name = "update" =>
        \A i \in DOMAIN cls.fields :
            cls.fields[i] \notin DOMAIN op.before => op.args[i] = None

\* A save of a record with two unset non-key fields, one with the default 0 and one
\* with a callable default.
C4_Witness ==
    /\ op.name = "save"
    /\ \E i, j \in DOMAIN cls.fields :
        /\ cls.fields[i] \notin DOMAIN op.before
        /\ cls.fields[j] \notin DOMAIN op.before
        /\ cls.mappings[cls.fields[i]].default = ZeroDefault
        /\ cls.mappings[cls.fields[j]].default = CallableDefault

\* What the function's own parameter list says.
NamedSet(sig) == {sig[i].name : i \in {j \in DOMAIN sig : sig[j].kind = "KEYWORD_ONLY"}}
RequiredSet(sig) ==
    {sig[i].name : i \in {j \in DOMAIN sig : sig[j].kind = "KEYWORD_ONLY" /\ ~sig[j].hasDefault}}
HasVarKw(sig) == \E i \in DOMAIN sig : sig[i].kind = "VAR_KEYWORD"
NeedsKw(sig) == HasVarKw(sig) \/ NamedSet(sig) # {}
TakesRequest(sig) == \E i \in DOMAIN sig : sig[i].name = "request"

MediaType(r) == IF r.content_type = <<>> THEN "" ELSE Lower(r.content_type)[1]
IsJson(r) == MediaType(r) = "application/json"
IsForm(r) == MediaType(r) \in {"application/x-www-form-urlencoded", "multipart/form-data"}

\* The request carries a keyword mapping: a GET with a query string, a POST with a
\* JSON object or a form body.
ProducedMapping(r) ==
    \/ r.method = "GET" /\ r.query_string # <<>>
    \/ r.method = "POST" /\ ((IsJson(r) /\ r.body.shape = "dict") \/ IsForm(r))

\* The mapping the request supplies: the first value of each query name, or the
\* items of the body.
Supplied(r) ==
    IF r.method = "GET"
    THEN LET qs == r.query_string
         IN [k \in {qs[i][1] : i \in DOMAIN qs} |->
                qs[CHOOSE i \in DOMAIN qs : qs[i][1] = k /\ \A j \in 1..(i - 1) : qs[j][1] # k][2]]
    ELSE r.body.items

WithoutRequest(d) == [k \in DOMAIN d \ {"request"} |-> d[k]]

\* C5: a handler with keyword-only parameters and no **kw, called for a request that
\* carries a keyword mapping, is called with (beside the injected request object)
\* exactly the supplied keys that are names of its keyword-only parameters plus
\* every path parameter, the path parameter's value where a name is in both; no
\* other supplied key reaches it.
C5_NamedFilterThenPathMerge ==
    (resp.invoked /\ NamedSet(handler.fn) # {} /\ ~HasVarKw(handler.fn) /\ ProducedMapping(req)) =>
        LET supplied == Supplied(req)
            path == req.match_info
            expected == [k \in (DOMAIN supplied \cap NamedSet(handler.fn)) \cup DOMAIN path |->
                            IF k \in DOMAIN path THEN path[k] ELSE supplied[k]]
        IN /\ WithoutRequest(resp.kw) = WithoutRequest(expected)
           /\ "request" \in DOMAIN resp.kw <=> TakesRequest(handler.fn)
           /\ TakesRequest(handler.fn) => resp.kw["request"] = RequestObject
           /\ \A k \in DOMAIN supplied \ (NamedSet(handler.fn) \cup DOMAIN path) :
                k \notin DOMAIN resp.kw

\* GET ?name=Bob&age=30 with the path parameter id, to a handler whose keyword-only
\* parameters include name and not age: it is called with name and id only.
C5_Witness ==
    /\ resp.invoked
    /\ ~HasVarKw(handler.fn)
    /\ "name" \in NamedSet(handler.fn)
    /\ req.method = "GET"
    /\ req.query_string = <<(<<"name", "Bob">>), (<<"age", "30">>)>>
    /\ DOMAIN req.match_info = {"id"}
    /\ DOMAIN resp.kw = {"name", "id"}

\* C6 (as claimed): a POST to a handler that has a **kw or a keyword-only parameter ends in a
\* 400 response with a message, the handler function not called, when there is no
\* content type, when the content type is neither JSON, url-encoded nor multipart,
\* and when a JSON body is not an object.  A handler with neither kind of
\* parameter is called with the path parameters alone, whatever the method, the
\* content type and the body.
C6_PostContentTypeErrors ==
    req # NoRequest =>
        /\ (req.method = "POST" /\ NeedsKw(handler.fn)) =>
            /\ req.content_type = <<>> =>
                /\ resp.kind = "HTTPBadRequest" /\ resp.status = 400
                /\ resp.text = "Missing Content-Type." /\ ~resp.invoked
            /\ (req.content_type # <<>> /\ ~IsJson(req) /\ ~IsForm(req)) =>
                /\ resp.kind = "HTTPBadRequest" /\ resp.status = 400
                /\ resp.text = "Unsupported Content-Type: " \o Text(req.content_type)
                /\ ~resp.invoked
            /\ (IsJson(req) /\ req.body.shape # "dict") =>
                /\ resp.kind = "HTTPBadRequest" /\ resp.status = 400
                /\ resp.text = "JSON body must be object." /\ ~resp.invoked
        /\ ~NeedsKw(handler.fn) =>
            /\ resp.invoked
            /\ resp.kind # "HTTPBadRequest"
            /\ WithoutRequest(resp.kw) = req.match_info

\* The keys of the assembled mapping: the supplied keys (only the named ones where
\* the filter applies), the path parameters, and request where it is injected.
AssembledKeys(sig, r) ==
    LET supplied == IF ProducedMapping(r) /\ NeedsKw(sig) THEN DOMAIN Supplied(r) ELSE {}
        kept == IF ~HasVarKw(sig) /\ NamedSet(sig) # {} THEN supplied \cap NamedSet(sig)
                ELSE supplied
    IN kept \cup DOMAIN r.match_info \cup (IF TakesRequest(sig) THEN {"request"} ELSE {})

\* The request ends at its content type or body: lines 92-104.
ContentTypeError(sig, r) ==
    /\ r.method = "POST" /\ NeedsKw(sig)
    /\ \/ r.content_type = <<>>
       \/ ~IsJson(r) /\ ~IsForm(r)
       \/ IsJson(r) /\ r.body.shape # "dict"

\* The request gets past them and a required name is not in the assembled mapping.
MissingArgument(sig, r) ==
    ~ContentTypeError(sig, r) /\ ~(RequiredSet(sig) \subseteq AssembledKeys(sig, r))

\* C7 (as claimed): the handler function is called only with every keyword-only parameter that
\* has no default present in the assembled mapping; when one is missing the
\* request ends in a 400 response naming a missing parameter and the function is
\* not called.  So for every method, a GET without query string included.
C7_RequiredKwArgs ==
    req # NoRequest =>
        /\ resp.invoked => RequiredSet(handler.fn) \subseteq DOMAIN resp.kw
        /\ MissingArgument(handler.fn, req) =>
            /\ resp.kind = "HTTPBadRequest" /\ resp.status = 400
            /\ \E n \in RequiredSet(handler.fn) \ AssembledKeys(handler.fn, req) :
                    resp.text = "Missing argument: " \o n
            /\ ~resp.invoked

\* A positional parameter follows the parameter named request.
PlainAfterRequest(sig) ==
    \E i, j \in DOMAIN sig :
        /\ i < j
        /\ sig[i].name = "request"
        /\ sig[j].kind \in {"POSITIONAL_ONLY", "POSITIONAL_OR_KEYWORD"}

RequestOrderError == "ValueError: request parameter must be the last named parameter"

\* C8: registration of a decorated function succeeds exactly when no positional
\* parameter follows a parameter named request; it then records whether there is
\* a parameter named request; otherwise it raises.  No request raises that
\* error: the inspection is made at registration only.
C8_RequestArgOrder ==
    /\ (handler.status # "none" /\ handler.raised # "ValueError: @get or @post not defined") =>
        /\ (handler.status = "ok") <=> ~PlainAfterRequest(handler.fn)
        /\ handler.status = "ok" => (handler.has_request_arg <=> TakesRequest(handler.fn))
        /\ handler.status # "ok" =>
            /\ handler.status = "raised" /\ handler.raised = RequestOrderError
    /\ req # NoRequest => (handler.status = "ok" /\ resp.exc # RequestOrderError)

\* A function declaring request before a positional parameter has failed to register.
C8_Witness ==
    /\ handler.status = "raised"
    /\ handler.raised = RequestOrderError
    /\ Len(handler.fn) = 2
    /\ handler.fn[1].name = "request"
    /\ handler.fn[2].kind = "POSITIONAL_OR_KEYWORD"

\* C9: when the handler function raises an APIError the adapter returns a dict of
\* exactly error, data and message, those of the error, and no exception leaves
\* it; when the function returns, the adapter returns its result; any other
\* exception the function raises leaves the adapter.
C9_DomainErrorToDict ==
    resp.invoked =>
        /\ resp.did.kind = "APIError" =>
            /\ resp.kind = "dict" /\ resp.exc = None
            /\ DOMAIN resp.dict = {"error", "data", "message"}
            /\ resp.dict["error"] = resp.did.apierror.error
            /\ resp.dict["data"] = resp.did.apierror.data
            /\ resp.dict["message"] = resp.did.apierror.message
        /\ resp.did.kind = "return" =>
            /\ resp.kind = "return" /\ resp.value = resp.did.value /\ resp.exc = None
        /\ resp.did.kind = "raise" =>
            /\ resp.kind = "raised" /\ resp.exc = resp.did.exc /\ resp.dict = EmptyDict

\* The function raised an APIError, with an empty message, and the adapter returned a dict.
C9_Witness ==
    /\ resp.invoked
    /\ resp.did.kind = "APIError"
    /\ resp.did.apierror.message = ""
    /\ resp.kind = "dict"

\* The limit the handler function passed to findAll is malformed.
MalformedLimit(limit) ==
    limit.type \notin {"NoneType", "int", "bool"} /\ ~(limit.type = "tuple" /\ Len(limit.v) = 2)

BadRequestWithMessage == resp.kind = "HTTPBadRequest" /\ resp.status = 400 /\ resp.text # ""

\* C10 (as claimed): every client input error, a malformed limit passed
\* to findAll by the handler function included, ends the request in a 400 response
\* with a message.
C10_AllInputErrorsAre400 ==
    req # NoRequest =>
        /\ (ContentTypeError(handler.fn, req) \/ MissingArgument(handler.fn, req)) =>
                BadRequestWithMessage
        /\ (resp.invoked /\ resp.did.kind = "findAll" /\ MalformedLimit(resp.did.limit)) =>
                BadRequestWithMessage

\* The statement and the arguments of a write operation, as its caller's record
\* determines them before execute is called.
Writes == {"save", "update", "remove"}

StatementOf(name) ==
    IF name = "save" THEN cls.insert ELSE IF name = "update" THEN cls.update ELSE cls.delete

\* C11: whatever affected-row count execute reports to save, update or remove, the
\* operation raises nothing, returns None and has handed execute one statement,
\* the one of the operation; the count shows in the warning alone, which is logged
\* exactly when the count is not 1; update and remove leave the record as it was.
C11_RowCountMismatchOnlyWarns ==
    op.name \in Writes =>
        /\ op.raised = None
        /\ op.returns = None
        /\ op.executed = 1
        /\ op.sql = StatementOf(op.name)
        /\ op.warned <=> (op.rows # 1)
        /\ op.name \in {"update", "remove"} => inst.d = op.before

\* A save for which execute reported no row, and an update for which it reported two.
C11_Witness ==
    /\ op.name = "save"
    /\ op.rows = 0
    /\ op.warned
    /\ op.raised = None

C11_WitnessMany ==
    /\ op.name = "update"
    /\ op.rows = 2
    /\ op.warned
    /\ op.raised = None

\* A select or execute call of task t is in flight.
InFlight(t) == task[t].pc \in {"acquire"} \cup InBlock

Suspended(t) == task[t].pc = "acquire" /\ pool.used = pool.maxsize

\* The connections out are those of the calls inside their with block; a call that
\* ended, by return or by exception, holds none; so none is out when no call is in
\* flight.  An exception of the driver leaves the call and the operation as the
\* driver raised it, after at most one statement.
C12_Released ==
    /\ pool.used = Cardinality({t \in Tasks : task[t].holds})
    /\ pool.used <= pool.maxsize
    /\ \A t \in Tasks : task[t].holds <=> task[t].pc \in InBlock
    /\ (\A t \in Tasks : ~InFlight(t)) => pool.used = 0
    /\ \A t \in Tasks :
        /\ task[t].queries <= 1
        /\ task[t].pc = "raised" =>
            /\ task[t].driver \in DriverErrors
            /\ task[t].exc = task[t].driver
            /\ task[t].crudExc = task[t].driver
        /\ task[t].pc = "returned" =>
            /\ task[t].exc = None
            /\ task[t].queries = 1

SavedValue(f) ==
    IF f = cls.primary_key THEN inst.saved[Len(inst.saved)]
    ELSE inst.saved[IndexOf(cls.fields, f)]

\* C13: save stores in the record every value it passed to execute in place of
\* an unset field; update and remove leave the record as it was; so an update
\* that follows a save with no assignment in between passes execute the values
\* and the key that save passed; and on a record no field of which was assigned
\* since its construction, the callable default of a field is called at most once,
\* however many times the record is saved.
C13_SaveWritesDefaultsBack ==
    /\ (inst.alive /\ inst.saved # <<>>) =>
            \A f \in Keys(cls) : SavedValue(f) # None => getValue(inst.d, f) = SavedValue(f)
    /\ op.name \in {"update", "remove"} => inst.d = op.before
    /\ (op.name = "update" /\ inst.saved # <<>>) => op.args = inst.saved
    /\ (inst.alive /\ inst.assigns = 0) => \A f \in Keys(cls) : Count(genCalls, f) <= 1

\* An update after a save that had called the callable default of an unset field,
\* and no assignment since.
C13_Witness ==
    /\ op.name = "update"
    /\ inst.saved # <<>>
    /\ inst.assigns = 0
    /\ \E i \in DOMAIN cls.fields :
        /\ cls.mappings[cls.fields[i]].default = CallableDefault
        /\ op.args[i] \in Range(GenValues)
        /\ genCalls = <<cls.fields[i]>>

====
